---- MODULE Spec2Model ----
(***************************************************************************)
(* Model of the PlayStation controller port driver (src/src/lib.rs).       *)
(*                                                                         *)
(* Buffers are functions over 0..n-1 so that byte indices are the ones the *)
(* source uses.  The select line, the scratch buffer, the configuration    *)
(* record and the position inside send_command and inside the calling      *)
(* operation are state; the bus (the HAL transfer) is the environment and  *)
(* chooses the received bytes and whether the transfer fails.              *)
(***************************************************************************)
EXTENDS Integers, Sequences, FiniteSets, TLC

(***************************************************************************)
(* Bounds of the model                                                     *)
(***************************************************************************)
\* longest buffer the bit-order adapter is applied to on its own
MaxFlipLen == 3
\* a transfer may fail only while fewer than MaxLowExch exchanges have
\* happened since the select line last went low
MaxLowExch == 2
\* number of distinct payload fillings the device may answer a poll with
NumSeeds == 2

(***************************************************************************)
(* Constants of the program                                                *)
(***************************************************************************)
MESSAGE_MAX_LENGTH == 32
ACK_BYTE == 90
HEADER_LEN == 3

CONTROLLER_NOT_PRESENT == 255
CONTROLLER_CLASSIC == 193
CONTROLLER_DUALSHOCK_DIGITAL == 65
CONTROLLER_DUALSHOCK_ANALOG == 115
CONTROLLER_DUALSHOCK_PRESSURE == 121
CONTROLLER_CONFIGURATION == 243

CMD_POLL == <<1, 66, 0>>
CMD_ENTER_ESCAPE_MODE == <<1, 67, 0, 1, 0>>
CMD_EXIT_ESCAPE_MODE == <<1, 67, 0, 0, 0>>
CMD_RESPONSE_FORMAT == <<1, 79, 0, 255, 255, 3, 0, 0, 0>>
CMD_INIT_PRESSURE == <<1, 64, 0, 0, 2, 0, 0, 0, 0>>
CMD_SET_MODE == <<1, 68, 0, 1, 0, 0, 0, 0, 0>>
CMD_READ_STATUS == <<1, 69, 0, 90, 90, 90, 90, 90, 90>>
CMD_READ_CONST1A == <<1, 70, 0, 0, 90, 90, 90, 90, 90>>
CMD_READ_CONST1B == <<1, 70, 0, 1, 90, 90, 90, 90, 90>>
CMD_READ_CONST2 == <<1, 71, 0, 0, 90, 90, 90, 90, 90>>
CMD_READ_CONST3A == <<1, 76, 0, 0, 90, 90, 90, 90, 90>>
CMD_READ_CONST3B == <<1, 76, 0, 1, 90, 90, 90, 90, 90>>

PS_SELECT == 1
PS_L3 == 2
PS_R3 == 4
PS_START == 8
PS_UP == 16
PS_RIGHT == 32
PS_DOWN == 64
PS_LEFT == 128
PS_L2 == 256
PS_R2 == 512
PS_L1 == 1024
PS_R1 == 2048
PS_TRIANGLE == 4096
PS_CIRCLE == 8192
PS_CROSS == 16384
PS_SQUARE == 32768

(***************************************************************************)
(* Bytes, buffers and the bit-order adapter                                *)
(***************************************************************************)
\* u8
Byte == 0..255

\* length of a buffer (a function over 0..n-1)
BufLen(b) == Cardinality(DOMAIN b)

\* [0u8; n]
ZeroBuffer(n) == [i \in 0..(n - 1) |-> 0]

\* bit i of the value v
Bit(v, i) == (v \div (2 ^ i)) % 2

\* mutant: the two nibbles are exchanged instead of the eight bits reversed
swap_bits_Nibbles(b) == (b % 16) * 16 + (b \div 16)

\* u8::swap_bits: bit i of the byte becomes bit 7 - i
swap_bits(b) ==
    Bit(b, 0) * 128 + Bit(b, 1) * 64 + Bit(b, 2) * 32 + Bit(b, 3) * 16
  + Bit(b, 4) * 8 + Bit(b, 5) * 4 + Bit(b, 6) * 2 + Bit(b, 7)

\* PlayStationPort::flip: every byte of the buffer is bit-reversed in place
flip(bytes) == [i \in DOMAIN bytes |-> swap_bits(bytes[i])]

\* mutant: the rest of the buffer is cleared when the command is copied in
CopyCommand_Padded(command, result) ==
    [i \in DOMAIN result |-> IF i < Len(command) THEN command[i + 1] ELSE 0]

\* result[0 .. command.len()].copy_from_slice(command)
CopyCommand(command, result) ==
    [i \in DOMAIN result |-> IF i < Len(command) THEN command[i + 1] ELSE result[i]]

\* &buffer[lo..hi] as an array of hi - lo bytes
Slice(buffer, lo, hi) == [i \in 0..(hi - lo - 1) |-> buffer[lo + i]]

\* the u16 operator & on 16-bit values
BitAnd16(a, b) ==
    LET AndBit(i) == Bit(a, i) * Bit(b, i) * (2 ^ i)
    IN  AndBit(0) + AndBit(1) + AndBit(2) + AndBit(3)
      + AndBit(4) + AndBit(5) + AndBit(6) + AndBit(7)
      + AndBit(8) + AndBit(9) + AndBit(10) + AndBit(11)
      + AndBit(12) + AndBit(13) + AndBit(14) + AndBit(15)

(***************************************************************************)
(* GamepadButtons: the sixteen active-low accessors                        *)
(***************************************************************************)
GamepadButtons_select(data) == BitAnd16(data, PS_SELECT) = 0
GamepadButtons_l3(data) == BitAnd16(data, PS_L3) = 0
GamepadButtons_r3(data) == BitAnd16(data, PS_R3) = 0
GamepadButtons_start(data) == BitAnd16(data, PS_START) = 0
GamepadButtons_up(data) == BitAnd16(data, PS_UP) = 0
GamepadButtons_right(data) == BitAnd16(data, PS_RIGHT) = 0
GamepadButtons_down(data) == BitAnd16(data, PS_DOWN) = 0
GamepadButtons_left(data) == BitAnd16(data, PS_LEFT) = 0
GamepadButtons_l2(data) == BitAnd16(data, PS_L2) = 0
GamepadButtons_r2(data) == BitAnd16(data, PS_R2) = 0
GamepadButtons_l1(data) == BitAnd16(data, PS_L1) = 0
GamepadButtons_r1(data) == BitAnd16(data, PS_R1) = 0
GamepadButtons_triangle(data) == BitAnd16(data, PS_TRIANGLE) = 0
GamepadButtons_circle(data) == BitAnd16(data, PS_CIRCLE) = 0
GamepadButtons_cross(data) == BitAnd16(data, PS_CROSS) = 0
\* mutant: square tests the mask of cross
GamepadButtons_square_CrossMask(data) == BitAnd16(data, PS_CROSS) = 0
GamepadButtons_square(data) == BitAnd16(data, PS_SQUARE) = 0
GamepadButtons_bits(data) == data

\* every accessor applied to one field, by the accessor's name
AllButtons(data) ==
    [select |-> GamepadButtons_select(data), l3 |-> GamepadButtons_l3(data),
     r3 |-> GamepadButtons_r3(data), start |-> GamepadButtons_start(data),
     up |-> GamepadButtons_up(data), right |-> GamepadButtons_right(data),
     down |-> GamepadButtons_down(data), left |-> GamepadButtons_left(data),
     l2 |-> GamepadButtons_l2(data), r2 |-> GamepadButtons_r2(data),
     l1 |-> GamepadButtons_l1(data), r1 |-> GamepadButtons_r1(data),
     triangle |-> GamepadButtons_triangle(data), circle |-> GamepadButtons_circle(data),
     cross |-> GamepadButtons_cross(data), square |-> GamepadButtons_square(data)]

(***************************************************************************)
(* ControllerData: the union's typed views of the 32 data bytes.  Every    *)
(* member is repr(C) and starts at offset 0 of the union; the u16 button   *)
(* field is read little-endian, as the repository's test expects.          *)
(***************************************************************************)
\* GamepadButtons { data: u16 } at offset off
ButtonField(data, off) == data[off] + 256 * data[off + 1]

\* controller.classic
ControllerData_classic(data) ==
    [variant |-> "Classic", buttons |-> ButtonField(data, 0)]

\* controller.ds
ControllerData_ds(data) ==
    [variant |-> "DualShock", buttons |-> ButtonField(data, 0),
     rx |-> data[2], ry |-> data[3], lx |-> data[4], ly |-> data[5]]

\* controller.ds2
ControllerData_ds2(data) ==
    [variant |-> "DualShock2", buttons |-> ButtonField(data, 0),
     rx |-> data[2], ry |-> data[3], lx |-> data[4], ly |-> data[5],
     pressures |-> Slice(data, 6, 14)]

\* the data copied out of the poll response: data.copy_from_slice(&buffer)
PollData(buffer) == [i \in 0..(MESSAGE_MAX_LENGTH - 1) |-> buffer[i]]

\* mutant: the arm for the DualShock in digital mode (0x41) is missing
Classify_NoDigital(buffer) ==
    LET controller == PollData(buffer)
    IN  CASE buffer[1] = CONTROLLER_NOT_PRESENT -> [variant |-> "None"]
          [] buffer[1] = CONTROLLER_CONFIGURATION -> [variant |-> "ConfigurationMode"]
          [] buffer[1] = CONTROLLER_CLASSIC -> ControllerData_classic(controller)
          [] buffer[1] = CONTROLLER_DUALSHOCK_ANALOG -> ControllerData_ds(controller)
          [] buffer[1] = CONTROLLER_DUALSHOCK_PRESSURE -> ControllerData_ds2(controller)
          [] OTHER -> [variant |-> "Unknown"]

\* the match on buffer[1] in read_input
Classify(buffer) ==
    LET controller == PollData(buffer)
    IN  CASE buffer[1] = CONTROLLER_NOT_PRESENT -> [variant |-> "None"]
          [] buffer[1] = CONTROLLER_CONFIGURATION -> [variant |-> "ConfigurationMode"]
          [] buffer[1] = CONTROLLER_CLASSIC -> ControllerData_classic(controller)
          [] buffer[1] = CONTROLLER_DUALSHOCK_DIGITAL -> ControllerData_classic(controller)
          [] buffer[1] = CONTROLLER_DUALSHOCK_ANALOG -> ControllerData_ds(controller)
          [] buffer[1] = CONTROLLER_DUALSHOCK_PRESSURE -> ControllerData_ds2(controller)
          [] OTHER -> [variant |-> "Unknown"]

\* mutant: the acknowledge is not checked for an Unknown device either
ValidateAck_SkipUnknown(device, buffer) ==
    IF device.variant \in {"None", "Unknown"}
    THEN [kind |-> "Ok", device |-> device]
    ELSE IF buffer[2] # ACK_BYTE
         THEN [kind |-> "BadResponse"]
         ELSE [kind |-> "Ok", device |-> device]

\* the acknowledge check of read_input and its return value
ValidateAck(device, buffer) ==
    IF device.variant = "None"
    THEN [kind |-> "Ok", device |-> device]
    ELSE IF buffer[2] # ACK_BYTE
         THEN [kind |-> "BadResponse"]
         ELSE [kind |-> "Ok", device |-> device]

(***************************************************************************)
(* ControllerConfiguration and the sequences of the two procedures         *)
(***************************************************************************)
\* ControllerConfiguration::default()
DefaultConfig ==
    [status |-> ZeroBuffer(6), const1a |-> ZeroBuffer(5), const1b |-> ZeroBuffer(5),
     const2 |-> ZeroBuffer(5), const3a |-> ZeroBuffer(5), const3b |-> ZeroBuffer(5)]

\* mutant: the pressure is initialised before the major mode is set
EnablePressureCommands_ModeLate ==
    <<CMD_POLL, CMD_ENTER_ESCAPE_MODE, CMD_INIT_PRESSURE, CMD_SET_MODE,
      CMD_RESPONSE_FORMAT, CMD_EXIT_ESCAPE_MODE>>

\* mutant: enable_pressure without its last command
EnablePressureCommands_NoExit ==
    <<CMD_POLL, CMD_ENTER_ESCAPE_MODE, CMD_SET_MODE, CMD_INIT_PRESSURE,
      CMD_RESPONSE_FORMAT>>

\* the commands of enable_pressure, in program order
EnablePressureCommands ==
    <<CMD_POLL, CMD_ENTER_ESCAPE_MODE, CMD_SET_MODE, CMD_INIT_PRESSURE,
      CMD_RESPONSE_FORMAT, CMD_EXIT_ESCAPE_MODE>>

\* mutant: the two reads of constant 1 in the other order
ReadConfigCommands_Swapped ==
    <<CMD_ENTER_ESCAPE_MODE, CMD_READ_STATUS, CMD_READ_CONST1B, CMD_READ_CONST1A,
      CMD_READ_CONST2, CMD_READ_CONST3A, CMD_READ_CONST3B, CMD_EXIT_ESCAPE_MODE>>

\* the commands of read_config, in program order
ReadConfigCommands ==
    <<CMD_ENTER_ESCAPE_MODE, CMD_READ_STATUS, CMD_READ_CONST1A, CMD_READ_CONST1B,
      CMD_READ_CONST2, CMD_READ_CONST3A, CMD_READ_CONST3B, CMD_EXIT_ESCAPE_MODE>>

\* mutant: const1a is captured from the header offset, as status is
CaptureConfig_HeaderOffset(s, cfg, buffer) ==
    CASE s = 2 -> [cfg EXCEPT !.status = Slice(buffer, HEADER_LEN, 9)]
      [] s = 3 -> [cfg EXCEPT !.const1a = Slice(buffer, HEADER_LEN, 8)]
      [] s = 4 -> [cfg EXCEPT !.const1b = Slice(buffer, 4, 9)]
      [] s = 5 -> [cfg EXCEPT !.const2 = Slice(buffer, 4, 9)]
      [] s = 6 -> [cfg EXCEPT !.const3a = Slice(buffer, 4, 9)]
      [] s = 7 -> [cfg EXCEPT !.const3b = Slice(buffer, 4, 9)]
      [] OTHER -> cfg

\* the copy_from_slice that follows step s of read_config
CaptureConfig(s, cfg, buffer) ==
    CASE s = 2 -> [cfg EXCEPT !.status = Slice(buffer, HEADER_LEN, 9)]
      [] s = 3 -> [cfg EXCEPT !.const1a = Slice(buffer, 4, 9)]
      [] s = 4 -> [cfg EXCEPT !.const1b = Slice(buffer, 4, 9)]
      [] s = 5 -> [cfg EXCEPT !.const2 = Slice(buffer, 4, 9)]
      [] s = 6 -> [cfg EXCEPT !.const3a = Slice(buffer, 4, 9)]
      [] s = 7 -> [cfg EXCEPT !.const3b = Slice(buffer, 4, 9)]
      [] OTHER -> cfg

(***************************************************************************)
(* The environment: the bus and the device behind it                       *)
(***************************************************************************)
\* the error values of the HAL transfer (the type parameter E)
BusErrors == {"E1", "E2"}

\* payload fillings of a response
Seeds == {(k * 83 + 16) % 256 : k \in 0..(NumSeeds - 1)}

\* third-byte values of a response: the acknowledge, a near miss, and zero
Acks == {ACK_BYTE, ACK_BYTE + 1, 0}

\* a response of n bytes in natural bit order: idle byte, tag, acknowledge, payload
Response(tag, ack, seed, n) ==
    [i \in 0..(n - 1) |->
        IF i = 0 THEN 255
        ELSE IF i = 1 THEN tag
        ELSE IF i = 2 THEN ack
        ELSE (seed + 7 * i) % 256]

\* what the device may answer to the poll of read_input: every tag byte
PollResponses(n) == {Response(t, a, s, n) : t \in Byte, a \in Acks, s \in Seeds}

\* what the device may answer inside the other operations
SeqResponses(n) == {Response(CONTROLLER_CONFIGURATION, ACK_BYTE, 16, n), Response(0, 0, 160, n)}

\* how many bytes a failing transfer may have exchanged before it failed
PartialLens(n) == {0, 2, n}

\* the buffer a transfer leaves when it stopped after k bytes
PartialTransfer(sent, received, k) ==
    [i \in DOMAIN sent |-> IF i < k THEN received[i] ELSE sent[i]]

\* arguments of a direct call of send_command
DirectCommands == {CMD_POLL, CMD_READ_STATUS}
DirectResults(command) ==
    {ZeroBuffer(Len(command)), ZeroBuffer(MESSAGE_MAX_LENGTH),
     [i \in 0..(MESSAGE_MAX_LENGTH - 1) |-> 255 - i]}

(***************************************************************************)
(* State                                                                   *)
(***************************************************************************)
VARIABLES
    select,      \* level of the select line (self.select): "high" or "low"
    pc,          \* position: "uninit", "idle", or the next line of send_command
    op,          \* the operation in progress or last returned
    step,        \* index of the current send_command inside op
    command,     \* the command argument of the running send_command
    buffer,      \* the result argument of send_command / the scratch buffer
    config,      \* the configuration record of read_config
    sc_result,   \* return value of the last send_command
    result,      \* return value of the last operation
    tx,          \* the buffers put on the bus by the current operation, in order
    rx,          \* the buffers the transfers left, in the same order
    lowExch,     \* exchanges since the select line last went from high to low
    controller,  \* the ControllerData of the unit test
    observed,    \* what the unit test read through the union
    remembered   \* an earlier poll of read_input: what it received and returned,
                 \* and whether an operation was entered after it

portvars == <<select, pc, op, step, command, buffer, config, sc_result, result, tx, rx, lowExch>>
testvars == <<controller, observed, remembered>>
vars == <<select, pc, op, step, command, buffer, config, sc_result, result, tx, rx, lowExch,
          controller, observed, remembered>>

NoResult == [kind |-> "None"]
NotObserved == [run |-> FALSE]
NoPoll == [kept |-> FALSE, later |-> FALSE]

\* before PlayStationPort::new: the line has whatever level the board left it at
Init ==
    /\ select \in {"high", "low"}
    /\ pc = "uninit"
    /\ op = "none"
    /\ step = 0
    /\ command = <<>>
    /\ buffer = ZeroBuffer(MESSAGE_MAX_LENGTH)
    /\ config = DefaultConfig
    /\ sc_result = NoResult
    /\ result = NoResult
    /\ tx = <<>>
    /\ rx = <<>>
    /\ lowExch = 0
    /\ controller = ZeroBuffer(MESSAGE_MAX_LENGTH)
    /\ observed = NotObserved
    /\ remembered = NoPoll

(***************************************************************************)
(* PlayStationPort::new                                                    *)
(***************************************************************************)
\* mutant: new leaves the select line as it found it
NewSelect_Untouched(level) == level

\* the level of the select line when new returns
NewSelect(level) == "high"

New ==
    /\ pc = "uninit"
    /\ select' = NewSelect(select)
    /\ pc' = "idle"
    /\ UNCHANGED <<op, step, command, buffer, config, sc_result, result, tx, rx, lowExch>>
    /\ UNCHANGED testvars

(***************************************************************************)
(* Entry of the four operations                                            *)
(***************************************************************************)
\* common frame of an entry: the call starts its first send_command
Enter(o, cmd, buf) ==
    /\ pc = "idle"
    /\ op' = o
    /\ step' = 1
    /\ command' = cmd
    /\ buffer' = buf
    /\ config' = DefaultConfig
    /\ sc_result' = NoResult
    /\ result' = NoResult
    /\ tx' = <<>>
    /\ rx' = <<>>
    /\ pc' = "copy"
    /\ remembered' = [remembered EXCEPT !.later = remembered.kept]
    /\ UNCHANGED <<select, lowExch>>
    /\ UNCHANGED <<controller, observed>>

CallSendCommand ==
    \E cmd \in DirectCommands : \E res \in DirectResults(cmd) :
        Enter("send_command", cmd, res)

CallEnablePressure ==
    Enter("enable_pressure", EnablePressureCommands[1], ZeroBuffer(MESSAGE_MAX_LENGTH))

CallReadConfig ==
    Enter("read_config", ReadConfigCommands[1], ZeroBuffer(MESSAGE_MAX_LENGTH))

CallReadInput ==
    Enter("read_input", CMD_POLL, ZeroBuffer(MESSAGE_MAX_LENGTH))

(***************************************************************************)
(* PlayStationPort::send_command, one action per statement                 *)
(***************************************************************************)
\* a statement of send_command that touches only the buffer
ScLocal(at, next, newbuf) ==
    /\ pc = at
    /\ buffer' = newbuf
    /\ pc' = next
    /\ UNCHANGED <<select, op, step, command, config, sc_result, result, tx, rx, lowExch>>
    /\ UNCHANGED testvars

ScCopy == ScLocal("copy", "flip1", CopyCommand(command, buffer))

ScFlip1 == ScLocal("flip1", "set_low", flip(buffer))

ScSetLow ==
    /\ pc = "set_low"
    /\ select' = "low"
    /\ lowExch' = IF select = "high" THEN 0 ELSE lowExch
    /\ pc' = "transfer"
    /\ UNCHANGED <<op, step, command, buffer, config, sc_result, result, tx, rx>>
    /\ UNCHANGED testvars

\* what the device may answer to the transfer of the operation in progress
Responses == IF op = "read_input" THEN PollResponses(BufLen(buffer))
                                  ELSE SeqResponses(BufLen(buffer))

\* mutant: a failed transfer is tried again
AfterTransferErr_Retry == "transfer"

\* where send_command continues when the transfer has failed: the ? returns
\* from send_command at once
AfterTransferErr == "ret"

\* self.dev.transfer(result) succeeds: the buffer holds the received bytes
ScTransferOk ==
    /\ pc = "transfer"
    /\ \E r \in Responses :
        /\ buffer' = flip(r)
        /\ rx' = Append(rx, flip(r))
    /\ tx' = Append(tx, buffer)
    /\ lowExch' = lowExch + 1
    /\ pc' = "set_high"
    /\ UNCHANGED <<select, op, step, command, config, sc_result, result>>
    /\ UNCHANGED testvars

\* mutant: the buffer is flipped back on the error path too
ScTransferErr_Restore ==
    /\ pc = "transfer"
    /\ lowExch < MaxLowExch
    /\ \E e \in BusErrors : \E r \in Responses : \E k \in PartialLens(BufLen(buffer)) :
        /\ buffer' = flip(PartialTransfer(buffer, flip(r), k))
        /\ rx' = Append(rx, PartialTransfer(buffer, flip(r), k))
        /\ sc_result' = [kind |-> "Err", e |-> e]
    /\ tx' = Append(tx, buffer)
    /\ lowExch' = lowExch + 1
    /\ pc' = AfterTransferErr
    /\ UNCHANGED <<select, op, step, command, config, result>>
    /\ UNCHANGED testvars

\* self.dev.transfer(result) fails with e after exchanging k bytes
ScTransferErr ==
    /\ pc = "transfer"
    /\ lowExch < MaxLowExch
    /\ \E e \in BusErrors : \E r \in Responses : \E k \in PartialLens(BufLen(buffer)) :
        /\ buffer' = PartialTransfer(buffer, flip(r), k)
        /\ rx' = Append(rx, PartialTransfer(buffer, flip(r), k))
        /\ sc_result' = [kind |-> "Err", e |-> e]
    /\ tx' = Append(tx, buffer)
    /\ lowExch' = lowExch + 1
    /\ pc' = AfterTransferErr
    /\ UNCHANGED <<select, op, step, command, config, result>>
    /\ UNCHANGED testvars

\* self.select.set_high(), on the way out of send_command
ScSetHigh ==
    /\ pc = "set_high"
    /\ select' = "high"
    /\ lowExch' = 0
    /\ pc' = "flip2"
    /\ UNCHANGED <<op, step, command, buffer, config, sc_result, result, tx, rx>>
    /\ UNCHANGED testvars

\* mutant: the received buffer is returned as it came off the bus
ScFlip2_NoRestore ==
    /\ pc = "flip2"
    /\ buffer' = buffer
    /\ sc_result' = [kind |-> "Ok"]
    /\ pc' = "ret"
    /\ UNCHANGED <<select, op, step, command, config, result, tx, rx, lowExch>>
    /\ UNCHANGED testvars

\* the second flip and Ok(())
ScFlip2 ==
    /\ pc = "flip2"
    /\ buffer' = flip(buffer)
    /\ sc_result' = [kind |-> "Ok"]
    /\ pc' = "ret"
    /\ UNCHANGED <<select, op, step, command, config, result, tx, rx, lowExch>>
    /\ UNCHANGED testvars

(***************************************************************************)
(* The callers of send_command                                             *)
(***************************************************************************)
\* the operation returns r
Return(r) ==
    /\ result' = r
    /\ pc' = "idle"
    /\ UNCHANGED <<step, command>>

\* the operation goes on with its next send_command
NextCommand(cmds) ==
    /\ step' = step + 1
    /\ command' = cmds[step + 1]
    /\ pc' = "copy"
    /\ UNCHANGED result

\* a direct call of send_command returns to its caller
SendCommandReturn ==
    /\ pc = "ret"
    /\ op = "send_command"
    /\ Return(sc_result)
    /\ UNCHANGED <<select, op, buffer, config, sc_result, tx, rx, lowExch>>
    /\ UNCHANGED testvars

\* enable_pressure after one of its send_command calls
EnablePressureStep ==
    /\ pc = "ret"
    /\ op = "enable_pressure"
    /\ IF sc_result.kind = "Err"
       THEN Return(sc_result)
       ELSE IF step < Len(EnablePressureCommands)
            THEN NextCommand(EnablePressureCommands)
            ELSE Return([kind |-> "Ok"])
    /\ UNCHANGED <<select, op, buffer, config, sc_result, tx, rx, lowExch>>
    /\ UNCHANGED testvars

\* mutant: a failing step rolls the record back to its default
ReadConfigStep_Rollback ==
    /\ pc = "ret"
    /\ op = "read_config"
    /\ IF sc_result.kind = "Err"
       THEN /\ Return(sc_result)
            /\ config' = DefaultConfig
       ELSE /\ config' = CaptureConfig(step, config, buffer)
            /\ IF step < Len(ReadConfigCommands)
               THEN NextCommand(ReadConfigCommands)
               ELSE Return([kind |-> "Ok", config |-> CaptureConfig(step, config, buffer)])
    /\ UNCHANGED <<select, op, buffer, sc_result, tx, rx, lowExch>>
    /\ UNCHANGED testvars

\* read_config after one of its send_command calls
ReadConfigStep ==
    /\ pc = "ret"
    /\ op = "read_config"
    /\ IF sc_result.kind = "Err"
       THEN /\ Return(sc_result)
            /\ UNCHANGED config
       ELSE /\ config' = CaptureConfig(step, config, buffer)
            /\ IF step < Len(ReadConfigCommands)
               THEN NextCommand(ReadConfigCommands)
               ELSE Return([kind |-> "Ok", config |-> CaptureConfig(step, config, buffer)])
    /\ UNCHANGED <<select, op, buffer, sc_result, tx, rx, lowExch>>
    /\ UNCHANGED testvars

\* mutant: the buffer is classified before the transfer's result is looked at
ReadInputClassify_ClassifyFirst ==
    /\ pc = "ret"
    /\ op = "read_input"
    /\ IF ValidateAck(Classify(buffer), buffer).kind = "BadResponse"
       THEN Return([kind |-> "BadResponse"])
       ELSE IF sc_result.kind = "Err"
            THEN Return([kind |-> "Spi", e |-> sc_result.e])
            ELSE Return(ValidateAck(Classify(buffer), buffer))
    /\ UNCHANGED <<select, op, buffer, config, sc_result, tx, rx, lowExch>>
    /\ UNCHANGED testvars

\* mutant: the acknowledge is validated only until a poll has been kept
ReadInputClassify_AckOnce ==
    /\ pc = "ret"
    /\ op = "read_input"
    /\ IF sc_result.kind = "Err"
       THEN Return([kind |-> "Spi", e |-> sc_result.e])
       ELSE IF remembered.kept
            THEN Return([kind |-> "Ok", device |-> Classify(buffer)])
            ELSE Return(ValidateAck(Classify(buffer), buffer))
    /\ UNCHANGED <<select, op, buffer, config, sc_result, tx, rx, lowExch>>
    /\ UNCHANGED testvars

\* read_input after its poll
ReadInputClassify ==
    /\ pc = "ret"
    /\ op = "read_input"
    /\ IF sc_result.kind = "Err"
       THEN Return([kind |-> "Spi", e |-> sc_result.e])
       ELSE Return(ValidateAck(Classify(buffer), buffer))
    /\ UNCHANGED <<select, op, buffer, config, sc_result, tx, rx, lowExch>>
    /\ UNCHANGED testvars

Next ==
    \/ New
    \/ CallSendCommand
    \/ CallEnablePressure
    \/ CallReadConfig
    \/ CallReadInput
    \/ ScCopy
    \/ ScFlip1
    \/ ScSetLow
    \/ ScTransferOk
    \/ ScTransferErr
    \/ ScSetHigh
    \/ ScFlip2
    \/ SendCommandReturn
    \/ EnablePressureStep
    \/ ReadConfigStep
    \/ ReadInputClassify

Spec == Init /\ [][Next]_vars

(***************************************************************************)
(* Two polls of one Port with different histories: one returned read_input *)
(* is kept, with what its exchange received and what it returned, and the  *)
(* Port goes on with any operations.                                       *)
(***************************************************************************)
\* the polls that may be kept: successful ones with these answers, and
\* failed ones that exchanged no byte
KeptResponses ==
    {Response(t, a, 16, MESSAGE_MAX_LENGTH) : t \in {CONTROLLER_DUALSHOCK_ANALOG, 66}, a \in {ACK_BYTE, 0}}

KeepPoll ==
    /\ pc = "idle"
    /\ op = "read_input"
    /\ ~remembered.kept
    /\ \/ sc_result.kind = "Ok" /\ flip(rx[1]) \in KeptResponses
       \/ sc_result.kind = "Err" /\ rx[1] = tx[1]
    /\ remembered' = [kept |-> TRUE, later |-> FALSE, received |-> rx[1],
                      outcome |-> sc_result, result |-> result]
    /\ UNCHANGED <<controller, observed>>
    /\ UNCHANGED portvars

NextPair == Next \/ KeepPoll

SpecPair == Init /\ [][NextPair]_vars

(***************************************************************************)
(* tests::union_test: a ControllerData is built from given bytes and read  *)
(* through the DualShock view.  The inputs range over every value of the   *)
(* 16-bit button field.                                                    *)
(***************************************************************************)
\* stick bytes (rx, ry, lx, ly) the test data is built with
StickSamples == {<<0, 0, 0, 255>>, <<16, 32, 48, 64>>}

\* ControllerData { data: [b0, b1, rx, ry, lx, ly, 0, ...] }
TestData(b0, b1, sticks) ==
    [i \in 0..(MESSAGE_MAX_LENGTH - 1) |->
        IF i = 0 THEN b0
        ELSE IF i = 1 THEN b1
        ELSE IF i < 6 THEN sticks[i - 1]
        ELSE 0]

InitTest ==
    /\ select = "high"
    /\ pc = "uninit"
    /\ op = "none"
    /\ step = 0
    /\ command = <<>>
    /\ buffer = ZeroBuffer(MESSAGE_MAX_LENGTH)
    /\ config = DefaultConfig
    /\ sc_result = NoResult
    /\ result = NoResult
    /\ tx = <<>>
    /\ rx = <<>>
    /\ lowExch = 0
    /\ \E b0 \in Byte : \E b1 \in Byte : \E sticks \in StickSamples :
        controller = TestData(b0, b1, sticks)
    /\ observed = NotObserved
    /\ remembered = NoPoll

\* the unsafe block of the test: the reads through controller.ds
union_test ==
    /\ observed.run = FALSE
    /\ observed' =
        [run |-> TRUE,
         buttons |-> AllButtons(GamepadButtons_bits(ControllerData_ds(controller).buttons)),
         rx |-> ControllerData_ds(controller).rx,
         ry |-> ControllerData_ds(controller).ry,
         lx |-> ControllerData_ds(controller).lx,
         ly |-> ControllerData_ds(controller).ly]
    /\ UNCHANGED <<controller, remembered>>
    /\ UNCHANGED portvars

NextTest == union_test

SpecTest == InitTest /\ [][NextTest]_vars

(***************************************************************************)
(* PlayStationPort::flip on its own: a buffer is drawn from every byte     *)
(* value and several lengths, and the adapter is applied to it twice.      *)
(***************************************************************************)
\* the buffers the adapter is applied to: every first byte, two fillings
FlipInputs ==
    {[i \in 0..(n - 1) |-> (b + i * d) % 256] :
        b \in Byte, d \in {0, 85}, n \in 0..MaxFlipLen}

InitFlip ==
    /\ select = "high"
    /\ pc = "uninit"
    /\ op = "none"
    /\ step = 0
    /\ command = <<>>
    /\ buffer = ZeroBuffer(MESSAGE_MAX_LENGTH)
    /\ config = DefaultConfig
    /\ sc_result = NoResult
    /\ result = NoResult
    /\ tx = <<>>
    /\ rx = <<>>
    /\ lowExch = 0
    /\ controller \in FlipInputs
    /\ observed = [flips |-> 0, bytes |-> controller]
    /\ remembered = NoPoll

\* Self::flip(bytes), applied to the bytes the previous application left
FlipAgain ==
    /\ observed.flips < 2
    /\ observed' = [flips |-> observed.flips + 1, bytes |-> flip(observed.bytes)]
    /\ UNCHANGED <<controller, remembered>>
    /\ UNCHANGED portvars

NextFlip == FlipAgain

SpecFlip == InitFlip /\ [][NextFlip]_vars

(***************************************************************************)
(* Vocabulary of the properties                                            *)
(***************************************************************************)
\* the response of the k-th transaction of the current operation, in natural bit order
Resp(k) == flip(rx[k])

\* the k-th transaction of the current operation put the command cmd on the bus
Issued(k, cmd) ==
    /\ k \in 1..Len(tx)
    /\ Len(cmd) <= BufLen(tx[k])
    /\ \A i \in 1..Len(cmd) : tx[k][i - 1] = swap_bits(cmd[i])

\* the operation o has returned
Returned(o) == pc = "idle" /\ op = o

(***************************************************************************)
(* Properties                                                              *)
(***************************************************************************)

\* C1: when send_command returns a bus error, the select line is high.
C1_SelectHighOnError ==
    (pc = "ret" /\ sc_result.kind = "Err") => select = "high"

\* C2: the select line is never held low across more than one transaction:
\* no second exchange happens before the line has gone high again.
C2_OneExchangePerAssertion == lowExch <= 1

\* C3: between new() and the start of the first transaction the select line
\* is high and no exchange has happened, whatever the level was before new().
C3_NewDeselects ==
    (pc # "uninit" /\ op = "none") => (select = "high" /\ tx = <<>> /\ rx = <<>>)

C3_Witness == pc = "idle" /\ op = "none" /\ select = "high"

\* the classification table of the tag byte, as the claim states it
C4_Table(tag) ==
    IF tag = 255 THEN "None"
    ELSE IF tag = 243 THEN "ConfigurationMode"
    ELSE IF tag = 193 \/ tag = 65 THEN "Classic"
    ELSE IF tag = 115 THEN "DualShock"
    ELSE IF tag = 121 THEN "DualShock2"
    ELSE "Unknown"

\* C4: a successful poll whose byte 2 is 0x5A is classified by byte 1 alone,
\* totally: every tag gives a Device, Unknown for the 250 unlisted tags, and
\* never GuitarHero.
C4_ClassificationTotal ==
    (Returned("read_input") /\ result.kind # "Spi" /\ Resp(1)[2] = 90) =>
        /\ result.kind = "Ok"
        /\ result.device.variant = C4_Table(Resp(1)[1])
        /\ result.device.variant # "GuitarHero"

C4_Witness ==
    /\ Returned("read_input")
    /\ result.kind = "Ok"
    /\ Resp(1)[2] = 90
    /\ Resp(1)[1] = 66
    /\ result.device.variant = "Unknown"

\* C5: a successful poll fails with BadResponse exactly when byte 1 is not
\* 0xFF and byte 2 is not 0x5A; tag 0xFF gives the absent device whatever
\* byte 2 is.
C5_BadResponseIff ==
    (Returned("read_input") /\ result.kind # "Spi") =>
        /\ (result.kind = "BadResponse") <=> (Resp(1)[1] # 255 /\ Resp(1)[2] # 90)
        /\ Resp(1)[1] = 255 => (result.kind = "Ok" /\ result.device.variant = "None")

C5_Witness ==
    /\ Returned("read_input")
    /\ result.kind = "BadResponse"
    /\ Resp(1)[1] = 66
    /\ Resp(1)[2] = 91

\* C6: the typed payload of Classic, DualShock and DualShock2 is taken from
\* the poll response at offset 3: buttons = bytes 3-4, rx, ry, lx, ly = bytes
\* 5, 6, 7, 8, pressures = bytes 9-16.
C6_PayloadAtOffset3 ==
    (Returned("read_input") /\ result.kind = "Ok"
        /\ result.device.variant \in {"Classic", "DualShock", "DualShock2"}) =>
        /\ result.device.buttons = Resp(1)[3] + 256 * Resp(1)[4]
        /\ result.device.variant \in {"DualShock", "DualShock2"} =>
            /\ result.device.rx = Resp(1)[5]
            /\ result.device.ry = Resp(1)[6]
            /\ result.device.lx = Resp(1)[7]
            /\ result.device.ly = Resp(1)[8]
        /\ result.device.variant = "DualShock2" =>
            \A i \in 0..7 : result.device.pressures[i] = Resp(1)[9 + i]

\* the bit positions of the sixteen buttons, as the claim lists them
C7_BitOf ==
    [select |-> 0, l3 |-> 1, r3 |-> 2, start |-> 3, up |-> 4, right |-> 5,
     down |-> 6, left |-> 7, l2 |-> 8, r2 |-> 9, l1 |-> 10, r1 |-> 11,
     triangle |-> 12, circle |-> 13, cross |-> 14, square |-> 15]

\* C7: every accessor is true exactly when its own bit of the field (byte 0
\* low, byte 1 high) is 0; rx, ry, lx, ly are payload bytes 2, 3, 4, 5; the
\* test's bytes FE 7F 00 00 00 FF give select and square only, lx 0, ly 255.
C7_ButtonsActiveLow ==
    observed.run =>
        /\ DOMAIN observed.buttons = DOMAIN C7_BitOf
        /\ \A name \in DOMAIN C7_BitOf :
            observed.buttons[name] =
                (((controller[0] + 256 * controller[1]) \div (2 ^ C7_BitOf[name])) % 2 = 0)
        /\ observed.rx = controller[2]
        /\ observed.ry = controller[3]
        /\ observed.lx = controller[4]
        /\ observed.ly = controller[5]
        /\ (controller[0] = 254 /\ controller[1] = 127 /\ controller[4] = 0 /\ controller[5] = 255) =>
            /\ \A name \in DOMAIN C7_BitOf :
                observed.buttons[name] = (name \in {"select", "square"})
            /\ observed.lx = 0
            /\ observed.ly = 255

C7_Witness ==
    /\ observed.run
    /\ controller[0] = 254 /\ controller[1] = 127
    /\ controller[2] = 0 /\ controller[3] = 0 /\ controller[4] = 0 /\ controller[5] = 255
    /\ observed.buttons.select /\ observed.buttons.square
    /\ ~observed.buttons.cross

\* the eight transactions of read_config, as the claim lists them
C8_Order ==
    <<CMD_ENTER_ESCAPE_MODE, CMD_READ_STATUS, CMD_READ_CONST1A, CMD_READ_CONST1B,
      CMD_READ_CONST2, CMD_READ_CONST3A, CMD_READ_CONST3B, CMD_EXIT_ESCAPE_MODE>>

\* C8: without a transfer failure read_config issues exactly eight
\* transactions in the listed order, whatever the responses contain.
C8_ReadConfigOrder ==
    op = "read_config" =>
        /\ Len(tx) <= 8
        /\ \A k \in 1..Len(tx) : Issued(k, C8_Order[k])
        /\ (pc = "idle" /\ result.kind = "Ok") => Len(tx) = 8

C8_Witness ==
    /\ Returned("read_config")
    /\ result.kind = "Ok"
    /\ Len(tx) = 8
    /\ Resp(2)[1] = 0
    /\ Resp(3)[1] = 243

\* C9 as stated: once enter-escape-mode was issued, exit-escape-mode is
\* issued before the call returns, on success and on a bus error alike.
C9_BracketAlways ==
    (pc = "idle" /\ op \in {"read_config", "enable_pressure"}) =>
        \A k \in 1..Len(tx) :
            Issued(k, CMD_ENTER_ESCAPE_MODE) =>
                \E j \in (k + 1)..Len(tx) : Issued(j, CMD_EXIT_ESCAPE_MODE)

\* C9 amended: a call that returns success has issued enter-escape-mode and,
\* as its last transaction, exit-escape-mode; a call that returns a bus error
\* issued nothing after the failed transaction.
C9_BracketOnSuccess ==
    (pc = "idle" /\ op \in {"read_config", "enable_pressure"}) =>
        /\ result.kind = "Ok" =>
            /\ \E k \in 1..Len(tx) : Issued(k, CMD_ENTER_ESCAPE_MODE)
            /\ \A k \in 1..Len(tx) :
                Issued(k, CMD_ENTER_ESCAPE_MODE) =>
                    /\ k < Len(tx)
                    /\ Issued(Len(tx), CMD_EXIT_ESCAPE_MODE)
        /\ result.kind = "Err" =>
            /\ Len(tx) = step
            /\ \A k \in 1..(Len(tx) - 1) : ~Issued(k, CMD_EXIT_ESCAPE_MODE)

C9_Witness ==
    /\ Returned("enable_pressure")
    /\ result.kind = "Ok"
    /\ Issued(2, CMD_ENTER_ESCAPE_MODE)
    /\ Issued(6, CMD_EXIT_ESCAPE_MODE)

\* block of a configuration record equals n bytes of the response at offset off
C10_Block(block, k, off, n) ==
    /\ DOMAIN block = 0..(n - 1)
    /\ \A i \in 0..(n - 1) : block[i] = Resp(k)[off + i]

\* C10: status is bytes 3..8 of the read-status response and each constant
\* is bytes 4..8 of its own transaction's response; a captured block is not
\* changed by the later transactions of the call.
C10_ConfigCapture ==
    op = "read_config" =>
        /\ step > 2 => C10_Block(config.status, 2, 3, 6)
        /\ step > 3 => C10_Block(config.const1a, 3, 4, 5)
        /\ step > 4 => C10_Block(config.const1b, 4, 4, 5)
        /\ step > 5 => C10_Block(config.const2, 5, 4, 5)
        /\ step > 6 => C10_Block(config.const3a, 6, 4, 5)
        /\ step > 7 => C10_Block(config.const3b, 7, 4, 5)
        /\ (pc = "idle" /\ result.kind = "Ok") => result.config = config

C10_Witness ==
    /\ Returned("read_config")
    /\ result.kind = "Ok"
    /\ result.config.status[0] = (16 + 7 * 3) % 256
    /\ result.config.const1a[0] = (160 + 7 * 4) % 256
    /\ result.config.const3b[4] = (16 + 7 * 8) % 256

\* the six transactions of enable_pressure, as the claim lists them
C11_Order ==
    <<CMD_POLL, CMD_ENTER_ESCAPE_MODE, CMD_SET_MODE, CMD_INIT_PRESSURE,
      CMD_RESPONSE_FORMAT, CMD_EXIT_ESCAPE_MODE>>

\* C11: without a transfer failure enable_pressure issues exactly six
\* transactions in the listed order and returns success whatever the
\* responses contain.
C11_EnablePressureOrder ==
    op = "enable_pressure" =>
        /\ Len(tx) <= 6
        /\ \A k \in 1..Len(tx) : Issued(k, C11_Order[k])
        /\ pc = "idle" => (result.kind = "Ok" <=> sc_result.kind = "Ok")
        /\ (pc = "idle" /\ result.kind = "Ok") => Len(tx) = 6

C11_Witness ==
    /\ Returned("enable_pressure")
    /\ result.kind = "Ok"
    /\ Len(tx) = 6
    /\ Resp(1)[1] = 0 /\ Resp(1)[2] = 0
    /\ Resp(3)[1] = 243

\* the commands of the operation o, in program order, as the spec lists them
C12_Commands(o) ==
    IF o = "enable_pressure" THEN C11_Order
    ELSE IF o = "read_config" THEN C8_Order
    ELSE <<CMD_POLL>>

\* C12: in enable_pressure, read_config and read_input the first failing
\* transfer is the last exchange of the call, every step's command was
\* exchanged once, and the error returned is the transfer's error unchanged
\* (wrapped as Spi(e) by read_input).
C12_FirstFailureEndsCall ==
    (op \in {"enable_pressure", "read_config", "read_input"} /\ sc_result.kind = "Err") =>
        /\ pc \in {"ret", "idle"}
        /\ Len(tx) = step
        /\ \A k \in 1..Len(tx) : Issued(k, C12_Commands(op)[k])
        /\ pc = "idle" =>
            IF op = "read_input"
            THEN result = [kind |-> "Spi", e |-> sc_result.e]
            ELSE result = [kind |-> "Err", e |-> sc_result.e]

C12_Witness ==
    /\ Returned("read_config")
    /\ sc_result = [kind |-> "Err", e |-> "E2"]
    /\ result = [kind |-> "Err", e |-> "E2"]
    /\ Len(tx) = 4

\* a block of the record is all zero
C13_Zero(block, n) ==
    /\ DOMAIN block = 0..(n - 1)
    /\ \A i \in 0..(n - 1) : block[i] = 0

\* the block captured after step s: from its response once step k is past it, else zero
C13_Partial(block, s, off, n, k) ==
    IF s < k THEN C10_Block(block, s, off, n) ELSE C13_Zero(block, n)

C14_BusErrorFirst ==
    (Returned("read_input") /\ sc_result.kind = "Err") =>
        /\ result.kind = "Spi"
        /\ result.e = sc_result.e
        /\ DOMAIN result = {"kind", "e"}

\* a failed poll whose buffer would have been a BadResponse, had it been classified
C14_Witness ==
    /\ Returned("read_input")
    /\ sc_result.kind = "Err"
    /\ result.kind = "Spi"
    /\ buffer[1] # 255
    /\ buffer[2] # 90

\* C15: the adapter keeps the length, maps bit j of every byte to bit 7 - j
\* of the same byte, and applied twice gives the original buffer back.
C15_FlipInvolution ==
    /\ DOMAIN observed.bytes = DOMAIN controller
    /\ observed.flips = 1 =>
        \A i \in DOMAIN controller :
            /\ observed.bytes[i] \in 0..255
            /\ \A j \in 0..7 :
                (observed.bytes[i] \div (2 ^ j)) % 2 = (controller[i] \div (2 ^ (7 - j))) % 2
    /\ observed.flips = 2 => observed.bytes = controller

C15_Witness ==
    /\ observed.flips = 2
    /\ DOMAIN controller = 0..2
    /\ controller[0] = 1 /\ controller[1] = 86 /\ controller[2] = 171
    /\ observed.bytes = controller

\* C16: the result of read_input is a function of what its own poll
\* exchange received: a poll that receives what an earlier poll of the Port
\* received returns what that poll returned, whatever happened in between.
C16_NoCachedVariant ==
    (Returned("read_input") /\ remembered.later
        /\ rx[1] = remembered.received /\ sc_result = remembered.outcome) =>
        result = remembered.result

\* a later poll of the Port that received what the kept poll received, the
\* kept one having ended in BadResponse
C16_Witness ==
    /\ Returned("read_input")
    /\ remembered.later
    /\ remembered.result.kind = "BadResponse"
    /\ rx[1] = remembered.received
    /\ sc_result = remembered.outcome
    /\ result.kind = "BadResponse"

\* byte a is byte b with its eight bits in the opposite order
C17_Rev(a, b) ==
    \A j \in 0..7 : (a \div (2 ^ j)) % 2 = (b \div (2 ^ (7 - j))) % 2

\* the head of the buffer b holds the command, as it is or bit-reversed
C17_Head(b, reversed) ==
    /\ Len(command) <= BufLen(b)
    /\ \A i \in 0..(Len(command) - 1) :
        IF reversed THEN C17_Rev(b[i], command[i + 1]) ELSE b[i] = command[i + 1]

\* C17: send_command copies the command, reverses the buffer, sets select
\* low, makes one exchange of the whole buffer, sets select high and reverses
\* the buffer again; the bus sees the bit-reversed command and the caller
\* gets, at every position, the bit-reversal of the byte received there.
C17_SendCommandSteps ==
    /\ pc = "flip1" => (C17_Head(buffer, FALSE) /\ Len(tx) = step - 1)
    /\ pc = "set_low" => (C17_Head(buffer, TRUE) /\ Len(tx) = step - 1)
    /\ pc = "transfer" => (C17_Head(buffer, TRUE) /\ Len(tx) = step - 1 /\ select = "low")
    /\ pc = "set_high" =>
        /\ select = "low"
        /\ Len(tx) = step /\ Len(rx) = step
        /\ C17_Head(tx[step], TRUE)
        /\ DOMAIN tx[step] = DOMAIN buffer
        /\ buffer = rx[step]
    /\ pc = "flip2" => (select = "high" /\ Len(tx) = step /\ buffer = rx[step])
    /\ (pc = "ret" /\ sc_result.kind = "Ok") =>
        /\ select = "high"
        /\ Len(tx) = step /\ Len(rx) = step
        /\ C17_Head(tx[step], TRUE)
        /\ DOMAIN buffer = DOMAIN rx[step]
        /\ \A i \in DOMAIN buffer : C17_Rev(buffer[i], rx[step][i])

C17_Witness ==
    /\ pc = "ret"
    /\ op = "send_command"
    /\ sc_result.kind = "Ok"
    /\ command = CMD_READ_STATUS
    /\ BufLen(buffer) = 32
    /\ tx[1][1] = 162
    /\ rx[1][1] = 207
    /\ buffer[1] = 243

\* C18: in enable_pressure and read_config every transaction exchanges the
\* 32 bytes of the one scratch buffer, which is not cleared between steps:
\* beyond the command the first transaction sends zeros and every later one
\* sends back, bit-reversed, the previous transaction's response.
C18_SharedScratch ==
    op \in {"enable_pressure", "read_config"} =>
        \A k \in 1..Len(tx) :
            /\ DOMAIN tx[k] = 0..31
            /\ \A i \in Len(C12_Commands(op)[k])..31 :
                IF k = 1
                THEN tx[k][i] = 0
                ELSE /\ tx[k][i] = rx[k - 1][i]
                     /\ C17_Rev(tx[k][i], Resp(k - 1)[i])

C18_Witness ==
    /\ Returned("read_config")
    /\ result.kind = "Ok"
    /\ tx[1][9] = 0
    /\ Resp(1)[9] = (160 + 7 * 9) % 256
    /\ tx[2][9] = rx[1][9]
    /\ tx[2][9] # 0
    /\ tx[8][5] = rx[7][5]

\* C19: when send_command returns a bus error the buffer is not reversed
\* again: it holds what the failed transfer left, in wire order.
C19_NoRestoreOnError ==
    (pc \in {"ret", "idle"} /\ sc_result.kind = "Err") =>
        /\ Len(rx) = step
        /\ buffer = rx[step]
        /\ C17_Head(tx[step], TRUE)

\* a failed send_command whose buffer starts with neither the command nor a
\* natural-order response: the transfer stopped after two bytes
C19_Witness ==
    /\ Returned("send_command")
    /\ sc_result.kind = "Err"
    /\ command = CMD_READ_STATUS
    /\ buffer[0] = 255 /\ buffer[1] = 207
    /\ buffer[3] = 90
    /\ buffer # tx[1]

====
